---- MODULE Spec2Model ----
(***************************************************************************)
(* A model of src/src/lib.rs: the transport pipeline assembled by          *)
(* Node::new (noise -> VerifyPeerId -> yamux -> per-substream protocol     *)
(* negotiation, wrapped in TransportTimeout), Node::listen_on,             *)
(* Node::connect, Control::open_substream, Control::close_connection.      *)
(*                                                                         *)
(* Node "A" listens; nodes "B" and "C" dial it.  A connection is named by  *)
(* its dialer.  Substreams are modelled on the connection B <-> A.         *)
(***************************************************************************)
EXTENDS Naturals, Sequences, FiniteSets

\* ---------------------------------------------------------------- bounds
MaxOpens == 2
MaxEvents == 1
MaxCloses == 1
MaxClosingOpens == 1

\* ------------------------------------------------------------- constants
Nodes == {"A", "B", "C"}
ListenerNode == "A"
Dialers == {"B", "C"}
Ends == {"A", "B"}
Endpoint == {"Dialer", "Listener"}
Protocols == {"p", "q"}
\* Bytes on a new stream that are not a multistream-select proposal.
Garbage == "?"

VARIABLES
    env,      \* what the callers and the transport may still do in this scenario
    foreign,  \* the ends of connection B <-> A that are not Nodes of this crate
    lstn,     \* listen_on: "off" | "on" | "ended"
    lq,       \* ListenerEvents the transport holds for the listener, oldest first
    lfut,     \* the upgrade the listen_on stream is awaiting ("-" when none)
    lout,     \* the items the listen_on stream has yielded
    up,       \* up[c][endpoint]: the upgrade chain of connection c at that endpoint
    calls,    \* calls[k]: the k-th Control::open_substream call
    strm,     \* strm[k]: the yamux stream of call k, at its opener and its acceptor
    inb,      \* inb[k]: the listener-side negotiation of stream k
    ctl,      \* ctl[e]: yamux::Control commands queued for the session of end e
    scmd,     \* scmd[e]: frames written by streams of e, queued for its session
    sock,     \* sock[e]: frames on the wire towards e, oldest first
    fut,      \* fut[e]: the stream the and_then future of incoming is negotiating (0: none)
    out,      \* out[e]: the items the incoming stream of e has yielded
    sess,     \* sess[e]: the yamux::Connection of e, "up" | "closed"
    term,     \* term[e]: the incoming stream of e has ended
    link,     \* the raw connection B <-> A, "up" | "down" | "closed"
    cls       \* cls[e]: the Control of e, "held" | "closing" | "returned" (close_connection)

envvars == <<env, foreign>>
upvars == <<lstn, lq, lfut, lout, up>>
subvars == <<calls, strm, inb, ctl, scmd, sock, fut, out, sess, term, link, cls>>
vars == <<envvars, upvars, subvars>>

\* -------------------------------------------------------------- pipeline
\* The identity a node authenticates with (Keypair -> PeerId).
PeerId(n) == n

\* The node at the other end of connection c, seen from endpoint r.
Remote(c, r) == IF r = "Dialer" THEN ListenerNode ELSE c

NoUpgrade == [stage |-> "idle", reached |-> 0, peer |-> "-", mode |-> "-", err |-> "-",
              fired |-> FALSE]

\* YamuxMode with both arms of the match building a client.
YamuxMode_AlwaysClient(r) == "Client"

\* yamux::Mode chosen from the endpoint.
YamuxMode(r) == IF r = "Dialer" THEN "Client" ELSE "Server"

InProgress(u) == u.stage \in {"raw", "noise", "verify", "yamux"}

\* What the failure of a stage is reported as.
StageError(stage) ==
    CASE stage = "raw" -> "Transport"
      [] stage = "noise" -> "Noise"
      [] stage = "verify" -> "Verify"
      [] OTHER -> "Yamux"

\* UpgradeError with the timeout reported as the negotiation timeout.
UpgradeError_AsNegotiation(timer_fired, stage) ==
    IF timer_fired THEN "NegotiationTimeoutReached" ELSE StageError(stage)

\* The failure of the chain under TransportTimeout: TransportTimeoutError::Timeout
\* when the timer fired, else the failure of the stage (TransportTimeoutError::Other).
UpgradeError(timer_fired, stage) ==
    IF timer_fired THEN "TransportTimeout" ELSE StageError(stage)

\* The listen_on stream: and_then(|upgrade| upgrade) yields the awaited upgrade's
\* result and is then free to poll the listener again.
ListenYield(c, r, item) ==
    IF r = "Listener"
    THEN lout' = Append(lout, item) /\ lfut' = "-"
    ELSE UNCHANGED <<lout, lfut>>

\* OkItem with the local identity in place of the remote's.
OkItem_LocalPeer(c, peer) == [ok |-> TRUE, c |-> c, peer |-> PeerId(ListenerNode), err |-> "-"]

\* The Connection (peer, control, incoming) of connection c.
OkItem(c, peer) == [ok |-> TRUE, c |-> c, peer |-> peer, err |-> "-"]
ErrItem(c, err) == [ok |-> FALSE, c |-> c, peer |-> "-", err |-> err]

\* The handshake messages endpoint r of connection c waits for have been sent.
NoiseAnswered(c, r) ==
    IF r = "Dialer"
    THEN up[c]["Listener"].stage # "idle"
    ELSE up[c]["Dialer"].reached >= 1

YamuxAnswered(c, r) ==
    IF r = "Dialer"
    THEN up[c]["Listener"].reached >= 3
    ELSE up[c]["Dialer"].reached >= 2

\* Node::listen_on
listen_on ==
    /\ lstn = "off"
    /\ lstn' = "on"
    /\ lq' = <<[t |-> "NewAddress", c |-> "-"]>>
    /\ UNCHANGED <<envvars, lfut, lout, up, subvars>>

\* The transport's listener is open: it has not ended and is not about to.
Listening == lstn = "on" /\ \A i \in DOMAIN lq : lq[i].t # "End"

\* The transport reports an informational event or an error on the listener,
\* or the listener ends.
ListenerEvent(t) ==
    /\ Listening
    /\ env.events > 0
    /\ env' = [env EXCEPT !.events = @ - 1]
    /\ lq' = Append(lq, [t |-> t, c |-> "-"])
    /\ UNCHANGED <<foreign, lstn, lfut, lout, up, subvars>>

\* Node::connect: dial through the composed chain.
connect(c) ==
    /\ c \in env.dials
    /\ up[c]["Dialer"].stage = "idle"
    /\ env' = [env EXCEPT !.dials = @ \ {c}]
    /\ up' = [up EXCEPT ![c]["Dialer"] =
                 IF Listening
                 THEN [@ EXCEPT !.stage = "raw"]
                 ELSE [@ EXCEPT !.stage = "failed", !.err = UpgradeError(FALSE, "raw")]]
    /\ UNCHANGED <<foreign, lstn, lq, lfut, lout, subvars>>

\* The base transport connects the dialer: the listener gets an Upgrade event.
RawConnected(c) ==
    /\ up[c]["Dialer"].stage = "raw"
    /\ Listening
    /\ up' = [up EXCEPT ![c]["Dialer"].stage = "noise"]
    /\ lq' = Append(lq, [t |-> "Upgrade", c |-> c])
    /\ UNCHANGED <<envvars, lstn, lfut, lout, subvars>>

\* listen_filter passing the informational event on as an item.
listen_filter_Mapped ==
    /\ lstn = "on" /\ lfut = "-" /\ lq # <<>>
    /\ Head(lq).t \in {"NewAddress", "AddressExpired"}
    /\ lq' = Tail(lq)
    /\ lout' = Append(lout, ErrItem("-", Head(lq).t))
    /\ UNCHANGED <<envvars, lstn, lfut, up, subvars>>

\* listen_on: map_ok + try_filter_map drop NewAddress and AddressExpired.
listen_filter ==
    /\ lstn = "on" /\ lfut = "-" /\ lq # <<>>
    /\ Head(lq).t \in {"NewAddress", "AddressExpired"}
    /\ lq' = Tail(lq)
    /\ UNCHANGED <<envvars, lstn, lfut, lout, up, subvars>>

\* listen_error with the error ending the stream.
listen_error_Fatal ==
    /\ lstn = "on" /\ lfut = "-" /\ lq # <<>>
    /\ Head(lq).t = "Error"
    /\ lq' = <<>>
    /\ lstn' = "ended"
    /\ lout' = Append(lout, ErrItem("-", "Listener"))
    /\ UNCHANGED <<envvars, lfut, up, subvars>>

\* listen_on: ListenerEvent::Error(e) => Err(e) is yielded.
listen_error ==
    /\ lstn = "on" /\ lfut = "-" /\ lq # <<>>
    /\ Head(lq).t = "Error"
    /\ lq' = Tail(lq)
    /\ lout' = Append(lout, ErrItem("-", "Listener"))
    /\ UNCHANGED <<envvars, lstn, lfut, up, subvars>>

\* listen_on: the transport's listener has ended, and so does the stream.
listen_end ==
    /\ lstn = "on" /\ lfut = "-" /\ lq # <<>>
    /\ Head(lq).t = "End"
    /\ lq' = Tail(lq)
    /\ lstn' = "ended"
    /\ UNCHANGED <<envvars, lfut, lout, up, subvars>>

\* listen_on: ListenerEvent::Upgrade => and_then awaits the upgrade (its
\* TransportTimeout timer starts here).
listen_upgrade ==
    /\ lstn = "on" /\ lfut = "-" /\ lq # <<>>
    /\ Head(lq).t = "Upgrade"
    /\ lq' = Tail(lq)
    /\ lfut' = Head(lq).c
    /\ up' = [up EXCEPT ![Head(lq).c]["Listener"].stage = "noise"]
    /\ UNCHANGED <<envvars, lstn, lout, subvars>>

\* authenticated: the noise XX handshake completes and yields the remote's identity.
authenticated(c, r) ==
    /\ up[c][r].stage = "noise"
    /\ NoiseAnswered(c, r)
    /\ up' = [up EXCEPT ![c][r] =
                 [@ EXCEPT !.stage = "verify", !.reached = 1,
                           !.peer = PeerId(Remote(c, r))]]
    /\ UNCHANGED <<envvars, lstn, lq, lfut, lout, subvars>>

\* peer_id_verified: VerifyPeerId passes (peer id, connection) on, or rejects.
VerifyPeerId(c, r, valid) ==
    /\ up[c][r].stage = "verify"
    /\ IF valid
       THEN /\ up' = [up EXCEPT ![c][r] = [@ EXCEPT !.stage = "yamux", !.reached = 2]]
            /\ UNCHANGED <<lout, lfut>>
       ELSE /\ up' = [up EXCEPT ![c][r] =
                         [@ EXCEPT !.stage = "failed", !.peer = "-",
                                   !.err = UpgradeError(FALSE, "verify")]]
            /\ ListenYield(c, r, ErrItem(c, UpgradeError(FALSE, "verify")))
    /\ UNCHANGED <<envvars, lstn, lq, subvars>>

\* multiplexed applied to the authenticated connection, before verification.
multiplexed_Unverified(c, r) ==
    /\ up[c][r].stage \in {"verify", "yamux"}
    /\ YamuxAnswered(c, r)
    /\ up' = [up EXCEPT ![c][r] =
                 [@ EXCEPT !.stage = "done", !.reached = 3, !.mode = YamuxMode(r)]]
    /\ ListenYield(c, r, OkItem(c, up[c][r].peer))
    /\ UNCHANGED <<envvars, lstn, lq, subvars>>

\* multiplexed + protocols_negotiated: "/yamux/1.0.0" is agreed, the session is
\* built in the endpoint's mode and (peer, control, incoming) is the output.
multiplexed(c, r) ==
    /\ up[c][r].stage = "yamux"
    /\ YamuxAnswered(c, r)
    /\ up' = [up EXCEPT ![c][r] =
                 [@ EXCEPT !.stage = "done", !.reached = 3, !.mode = YamuxMode(r)]]
    /\ ListenYield(c, r, OkItem(c, up[c][r].peer))
    /\ UNCHANGED <<envvars, lstn, lq, subvars>>

\* A stage that talks to the remote fails (I/O error, bad handshake).
UpgradeFail(c, r) ==
    /\ up[c][r].stage \in {"raw", "noise", "yamux"}
    /\ up' = [up EXCEPT ![c][r] =
                 [@ EXCEPT !.stage = "failed", !.peer = "-",
                           !.err = UpgradeError(FALSE, up[c][r].stage)]]
    /\ ListenYield(c, r, ErrItem(c, UpgradeError(FALSE, up[c][r].stage)))
    /\ UNCHANGED <<envvars, lstn, lq, subvars>>

\* timeout_applied with the timer around the noise handshake only.
timeout_applied_NoiseOnly(c, r) ==
    /\ up[c][r].stage = "noise"
    /\ up' = [up EXCEPT ![c][r] =
                 [@ EXCEPT !.stage = "failed", !.peer = "-", !.fired = TRUE,
                           !.err = UpgradeError(TRUE, up[c][r].stage)]]
    /\ ListenYield(c, r, ErrItem(c, UpgradeError(TRUE, up[c][r].stage)))
    /\ UNCHANGED <<envvars, lstn, lq, subvars>>

\* timeout_applied: the TransportTimeout timer fires before the chain is through.
timeout_applied(c, r) ==
    /\ InProgress(up[c][r])
    /\ up' = [up EXCEPT ![c][r] =
                 [@ EXCEPT !.stage = "failed", !.peer = "-", !.fired = TRUE,
                           !.err = UpgradeError(TRUE, up[c][r].stage)]]
    /\ ListenYield(c, r, ErrItem(c, UpgradeError(TRUE, up[c][r].stage)))
    /\ UNCHANGED <<envvars, lstn, lq, subvars>>

\* -------------------------------------------------------------- substreams
Streams == 1..MaxOpens

Peer(e) == IF e = "A" THEN "B" ELSE "A"

\* End e holds the Connection of B <-> A: connect returned it to B, the
\* listen_on stream yielded it to A.
Established(e) == up["B"][IF e = "B" THEN "Dialer" ELSE "Listener"].stage = "done"

\* The list every inbound stream of every connection is negotiated against.
supported_inbound_protocols == <<"p">>

\* Supported with every known protocol taken as supported.
Supported_Any(p) == p \in Protocols

Supported(p) == \E i \in DOMAIN supported_inbound_protocols : supported_inbound_protocols[i] = p

NoCall == [st |-> "none", side |-> "-", proto |-> "-", res |-> "-", opened |-> FALSE,
           fired |-> FALSE]
NoStream == [oh |-> "none", ah |-> "none", obuf |-> "-", abuf |-> "-",
             oeof |-> FALSE, aeof |-> FALSE]
NoInbound == [st |-> "none", proto |-> "-", fired |-> FALSE]

Frame(t, k, d) == [t |-> t, k |-> k, d |-> d]

Opener(k) == calls[k].side
Acceptor(k) == Peer(calls[k].side)

\* CanAdvance with the session driven while a negotiation is pending.
CanAdvance_Concurrent(e) ==
    /\ Established(e)
    /\ sess[e] = "up"

\* yamux drives a session only inside Connection::next_stream.  A Node calls it
\* from yamux::into_stream, which and_then polls only while it holds no
\* negotiation future; another implementation drives its session on its own.
CanAdvance(e) ==
    /\ Established(e)
    /\ sess[e] = "up"
    /\ e \in foreign \/ fut[e] = 0

\* Streams whose handle end e has dropped and whose session has not yet let go.
Dropped(e, s) ==
    {k \in Streams : \/ calls[k].side = e /\ s[k].oh = "dropped"
                     \/ calls[k].side = Peer(e) /\ s[k].ah = "dropped"}

\* Connection::garbage_collect, run at the top of every turn of the session:
\* a dropped stream is removed and, unless the remote reset it, reset.
GcStreams(e, s) ==
    [k \in Streams |->
        IF k \notin Dropped(e, s) THEN s[k]
        ELSE IF calls[k].side = e THEN [s[k] EXCEPT !.oh = "gone", !.obuf = "-", !.oeof = FALSE]
        ELSE [s[k] EXCEPT !.ah = "gone", !.abuf = "-", !.aeof = FALSE]]

GcFrames(e, s) ==
    LET resets(k) == k \in Dropped(e, s) /\ ~(IF calls[k].side = e THEN s[k].oeof ELSE s[k].aeof)
        all == [k \in Streams |-> Frame("RST", k, "-")]
        keep(f) == resets(f.k)
    IN  SelectSeq(all, keep)

\* The frames fs are put on the wire towards the peer of e.
Wire(e, fs) == IF link = "up" THEN sock[Peer(e)] \o fs ELSE sock[Peer(e)]

\* A stream of e writes the frames fs, after e dropped the streams of s that are
\* "dropped": a Node's session sends them, and resets the dropped streams, on
\* its next turn; another implementation sends at once.
Written(e, s, fs) ==
    IF e \in foreign
    THEN /\ strm' = GcStreams(e, s)
         /\ sock' = [sock EXCEPT ![Peer(e)] = Wire(e, GcFrames(e, s) \o fs)]
         /\ UNCHANGED scmd
    ELSE /\ strm' = s
         /\ scmd' = [scmd EXCEPT ![e] = @ \o fs]
         /\ UNCHANGED sock

\* The incoming stream of a Node yields an item: the and_then future is done.
Yield(e, item) ==
    IF e \in foreign
    THEN UNCHANGED <<out, fut>>
    ELSE out' = [out EXCEPT ![e] = Append(@, item)] /\ fut' = [fut EXCEPT ![e] = 0]

NextCall(k) == calls[k].st = "none" /\ \A j \in Streams : j < k => calls[j].st # "none"

\* The open_substream calls of end e that have not returned.
InFlight(e) == {k \in Streams : calls[k].side = e /\ calls[k].st \in {"cmd", "nego"}}

\* open_substream taking a shared reference to the Control.
open_substream_Shared(e, p) ==
    /\ Established(e) /\ e \notin foreign
    /\ cls[e] = "held"
    /\ env.opens > 0
    /\ \E k \in Streams :
        /\ NextCall(k)
        /\ calls' = [calls EXCEPT ![k] = [NoCall EXCEPT !.st = "cmd", !.side = e, !.proto = p]]
        /\ ctl' = [ctl EXCEPT ![e] = IF sess[e] = "up" THEN Append(@, k) ELSE @]
    /\ env' = [env EXCEPT !.opens = @ - 1]
    /\ UNCHANGED <<foreign, upvars, strm, inb, scmd, sock, fut, out, sess, term, link, cls>>

\* Control::open_substream is called: yamux::Control::open_stream queues a command.
\* The call borrows the Control (&mut self) until it returns, and a Connection
\* holds one Control, which cannot be cloned.
open_substream(e, p) ==
    /\ Established(e) /\ e \notin foreign
    /\ cls[e] = "held" /\ InFlight(e) = {}
    /\ env.opens > 0
    /\ \E k \in Streams :
        /\ NextCall(k)
        /\ calls' = [calls EXCEPT ![k] = [NoCall EXCEPT !.st = "cmd", !.side = e, !.proto = p]]
        /\ ctl' = [ctl EXCEPT ![e] = IF sess[e] = "up" THEN Append(@, k) ELSE @]
    /\ env' = [env EXCEPT !.opens = @ - 1]
    /\ UNCHANGED <<foreign, upvars, strm, inb, scmd, sock, fut, out, sess, term, link, cls>>

\* Another implementation opens a stream to the Node and proposes p: the SYN is
\* a frame of its own followed by the proposal, or carries the proposal.
RemoteOpen(e, p, lazy) ==
    /\ Established(e) /\ e \in foreign
    /\ sess[e] = "up"
    /\ env.opens > 0
    /\ \E k \in Streams :
        /\ NextCall(k)
        /\ calls' = [calls EXCEPT ![k] =
                        [NoCall EXCEPT !.st = "nego", !.side = e, !.proto = p, !.opened = TRUE]]
        /\ strm' = [strm EXCEPT ![k].oh = "open"]
        /\ sock' = [sock EXCEPT ![Peer(e)] =
                       Wire(e, IF lazy THEN <<Frame("SYN", k, p)>>
                               ELSE <<Frame("SYN", k, "-"), Frame("DATA", k, p)>>)]
    /\ env' = [env EXCEPT !.opens = @ - 1]
    /\ UNCHANGED <<foreign, upvars, inb, ctl, scmd, fut, out, sess, term, link, cls>>

\* ControlCommand::CloseConnection in the queue of a session (an OpenStream
\* command is the number of its call).
CloseConnection == 0

\* The close_connection call of e is waiting for the session's reply.
Closing(e) == \E i \in DOMAIN ctl[e] : ctl[e][i] = CloseConnection

\* The session of e handles ControlCommand::OpenStream: the stream is created and
\* its SYN sent.  The stream goes to the caller, whose dialer_select_proto
\* writes the header and the one proposed protocol; or it is dropped when the
\* caller has given up.
SessionOpen(e) ==
    /\ CanAdvance(e) /\ link = "up"
    /\ ctl[e] # <<>> /\ Head(ctl[e]) # CloseConnection
    /\ LET k == Head(ctl[e])
           live == calls[k].st = "cmd"
       IN  /\ ctl' = [ctl EXCEPT ![e] = Tail(@)]
           /\ calls' = [calls EXCEPT ![k] =
                           IF live THEN [@ EXCEPT !.st = "nego", !.opened = TRUE] ELSE @]
           /\ strm' = [GcStreams(e, strm) EXCEPT ![k].oh = IF live THEN "open" ELSE "dropped"]
           /\ sock' = [sock EXCEPT ![Peer(e)] =
                          Wire(e, GcFrames(e, strm) \o <<Frame("SYN", k, "-")>>)]
           /\ scmd' = [scmd EXCEPT ![e] =
                          IF live THEN Append(@, Frame("DATA", k, calls[k].proto)) ELSE @]
    /\ UNCHANGED <<envvars, upvars, inb, fut, out, sess, term, link, cls>>

\* The session of e handles StreamCommand::SendFrame: a written frame goes out.
SessionSend(e) ==
    /\ CanAdvance(e) /\ link = "up"
    /\ scmd[e] # <<>>
    /\ scmd' = [scmd EXCEPT ![e] = Tail(@)]
    /\ strm' = GcStreams(e, strm)
    /\ sock' = [sock EXCEPT ![Peer(e)] = Wire(e, GcFrames(e, strm) \o <<Head(scmd[e])>>)]
    /\ UNCHANGED <<envvars, upvars, calls, inb, ctl, fut, out, sess, term, link, cls>>

\* The session of e reads a SYN: next_stream returns the new inbound stream and
\* and_then starts its negotiation future (the negotiation timer starts).
SessionInbound(e) ==
    /\ CanAdvance(e) /\ link = "up"
    /\ sock[e] # <<>> /\ Head(sock[e]).t = "SYN"
    /\ LET f == Head(sock[e])
       IN  /\ strm' = [GcStreams(e, strm) EXCEPT ![f.k].ah = "open", ![f.k].abuf = f.d]
           /\ inb' = [inb EXCEPT ![f.k] = [NoInbound EXCEPT !.st = "nego"]]
           /\ fut' = [fut EXCEPT ![e] = IF e \in foreign THEN @ ELSE f.k]
    /\ sock' = [sock EXCEPT ![e] = Tail(@), ![Peer(e)] = Wire(e, GcFrames(e, strm))]
    /\ UNCHANGED <<envvars, upvars, calls, ctl, scmd, out, sess, term, link, cls>>

\* SessionFrame with the session driven on its own, not by incoming.
SessionFrame_Unpolled(e) ==
    /\ Established(e) /\ sess[e] = "up" /\ link = "up"
    /\ sock[e] # <<>> /\ Head(sock[e]).t # "SYN"
    /\ LET f == Head(sock[e])
           g == GcStreams(e, strm)
           mine == calls[f.k].side = e
       IN  strm' =
             IF mine /\ g[f.k].oh = "open"
             THEN IF f.t = "RST" THEN [g EXCEPT ![f.k].oeof = TRUE]
                  ELSE [g EXCEPT ![f.k].obuf = f.d]
             ELSE IF ~mine /\ g[f.k].ah = "open"
             THEN IF f.t = "RST" THEN [g EXCEPT ![f.k].aeof = TRUE]
                  ELSE [g EXCEPT ![f.k].abuf = f.d]
             ELSE g
    /\ sock' = [sock EXCEPT ![e] = Tail(@), ![Peer(e)] = Wire(e, GcFrames(e, strm))]
    /\ UNCHANGED <<envvars, upvars, calls, inb, ctl, scmd, fut, out, sess, term, link, cls>>

\* The session of e reads a data frame into the buffer of its stream, or a reset.
SessionFrame(e) ==
    /\ CanAdvance(e) /\ link = "up"
    /\ sock[e] # <<>> /\ Head(sock[e]).t # "SYN"
    /\ LET f == Head(sock[e])
           g == GcStreams(e, strm)
           mine == calls[f.k].side = e
       IN  strm' =
             IF mine /\ g[f.k].oh = "open"
             THEN IF f.t = "RST" THEN [g EXCEPT ![f.k].oeof = TRUE]
                  ELSE [g EXCEPT ![f.k].obuf = f.d]
             ELSE IF ~mine /\ g[f.k].ah = "open"
             THEN IF f.t = "RST" THEN [g EXCEPT ![f.k].aeof = TRUE]
                  ELSE [g EXCEPT ![f.k].abuf = f.d]
             ELSE g
    /\ sock' = [sock EXCEPT ![e] = Tail(@), ![Peer(e)] = Wire(e, GcFrames(e, strm))]
    /\ UNCHANGED <<envvars, upvars, calls, inb, ctl, scmd, fut, out, sess, term, link, cls>>

\* The session of e has nothing to read or send but streams to let go.
SessionGc(e) ==
    /\ CanAdvance(e) /\ link = "up"
    /\ Dropped(e, strm) # {}
    /\ strm' = GcStreams(e, strm)
    /\ sock' = [sock EXCEPT ![Peer(e)] = Wire(e, GcFrames(e, strm))]
    /\ UNCHANGED <<envvars, upvars, calls, inb, ctl, scmd, fut, out, sess, term, link, cls>>

\* The raw connection breaks.
LinkDown ==
    /\ link = "up"
    /\ \E e \in Ends : Established(e)
    /\ link' = "down"
    /\ sock' = [e \in Ends |-> <<>>]
    /\ UNCHANGED <<envvars, upvars, calls, strm, inb, ctl, scmd, fut, out, sess, term, cls>>

\* Control::close_connection is called: it consumes the Control and
\* yamux::Control::close queues a command, or returns at once when the session
\* is gone.
close_connection(e) ==
    /\ Established(e) /\ e \notin foreign
    /\ cls[e] = "held" /\ InFlight(e) = {}
    /\ env.closes > 0
    /\ env' = [env EXCEPT !.closes = @ - 1]
    /\ IF sess[e] = "up"
       THEN ctl' = [ctl EXCEPT ![e] = Append(@, CloseConnection)]
            /\ cls' = [cls EXCEPT ![e] = "closing"]
       ELSE cls' = [cls EXCEPT ![e] = "returned"] /\ UNCHANGED ctl
    /\ UNCHANGED <<foreign, upvars, calls, strm, inb, scmd, sock, fut, out, sess, term, link>>

\* SessionClose replying to the Control without closing the raw connection.
SessionClose_ReplyOnly(e) ==
    /\ CanAdvance(e) /\ link = "up"
    /\ ctl[e] # <<>> /\ Head(ctl[e]) = CloseConnection
    /\ sess' = [sess EXCEPT ![e] = "closed"]
    /\ cls' = [cls EXCEPT ![e] = "returned"]
    /\ ctl' = [ctl EXCEPT ![e] = <<>>]
    /\ scmd' = [scmd EXCEPT ![e] = <<>>]
    /\ UNCHANGED <<envvars, upvars, calls, strm, inb, sock, fut, out, term, link>>

\* The session of e handles ControlCommand::CloseConnection: it sends what its
\* streams had written and the final frame, replies to the Control, closes the
\* raw connection, and next_stream returns None.
SessionClose(e) ==
    /\ CanAdvance(e) /\ link = "up"
    /\ ctl[e] # <<>> /\ Head(ctl[e]) = CloseConnection
    /\ sess' = [sess EXCEPT ![e] = "closed"]
    /\ cls' = [cls EXCEPT ![e] = "returned"]
    /\ ctl' = [ctl EXCEPT ![e] = <<>>]
    /\ scmd' = [scmd EXCEPT ![e] = <<>>]
    /\ link' = "closed"
    /\ sock' = [x \in Ends |-> <<>>]
    /\ UNCHANGED <<envvars, upvars, calls, strm, inb, fut, out, term>>

\* The session of e meets the end of the raw connection.  Broken: next_stream
\* returns Err, which err_into turns into Error::Multiplexer.  Closed by the
\* remote: next_stream returns None.  Either way the session is closed and a
\* waiting close_connection is answered.
SessionClosed(e) ==
    /\ CanAdvance(e) /\ link # "up"
    /\ sess' = [sess EXCEPT ![e] = "closed"]
    /\ cls' = [cls EXCEPT ![e] = IF Closing(e) THEN "returned" ELSE @]
    /\ ctl' = [ctl EXCEPT ![e] = <<>>]
    /\ scmd' = [scmd EXCEPT ![e] = <<>>]
    /\ out' = [out EXCEPT ![e] = IF e \in foreign \/ link = "closed" THEN @
                                 ELSE Append(@, [k |-> 0, r |-> "Multiplexer", p |-> "-"])]
    /\ UNCHANGED <<envvars, upvars, calls, strm, inb, sock, fut, term, link>>

\* The incoming stream of e is polled after the session closed: it ends.
IncomingEnd(e) ==
    /\ Established(e) /\ e \notin foreign
    /\ sess[e] = "closed" /\ fut[e] = 0 /\ ~term[e]
    /\ term' = [term EXCEPT ![e] = TRUE]
    /\ UNCHANGED <<envvars, upvars, calls, strm, inb, ctl, scmd, sock, fut, out, sess, link, cls>>

\* ----------------------------------------------------------- negotiation
\* OpenResult with a failed open_stream taken for a failed negotiation.
OpenResult_OpenUnchecked(timer_fired, opened, answer) ==
    IF timer_fired THEN "NegotiationTimeoutReached"
    ELSE IF answer = "ack" THEN "Ok"
    ELSE "NegotiationFailed"

\* OpenResult with any answer of the remote taken for its agreement.
OpenResult_AnyAnswer(timer_fired, opened, answer) ==
    IF timer_fired THEN "NegotiationTimeoutReached"
    ELSE IF ~opened THEN "Multiplexer"
    ELSE IF answer \in {"ack", "na"} THEN "Ok"
    ELSE "NegotiationFailed"

\* Control::open_substream: timeout(..).await.map_err(..)?? over the block
\* { open_stream().await?; dialer_select_proto(..).await? }.
OpenResult(timer_fired, opened, answer) ==
    IF timer_fired THEN "NegotiationTimeoutReached"
    ELSE IF ~opened THEN "Multiplexer"
    ELSE IF answer = "ack" THEN "Ok"
    ELSE "NegotiationFailed"

\* incoming: timeout(listener_select_proto(..)).await.map_err(..)??
InboundResult(timer_fired, agreed) ==
    IF timer_fired THEN "NegotiationTimeoutReached"
    ELSE IF agreed THEN "Ok"
    ELSE "NegotiationFailed"

Finish(k, r) == [calls[k] EXCEPT !.st = "done", !.res = r]

Item(k, r, p) == [k |-> k, r |-> r, p |-> p]

\* The stream handle open_substream ends with: the caller's, or dropped.
Handle(r) == IF r = "Ok" THEN "open" ELSE "dropped"

\* dialer_select_proto reads the remote's answer: the protocol, or "na".
DialerAnswer(k) ==
    /\ calls[k].st = "nego"
    /\ strm[k].obuf # "-"
    /\ LET r == OpenResult(FALSE, TRUE, strm[k].obuf)
       IN  /\ calls' = [calls EXCEPT ![k] = Finish(k, r)]
           /\ Written(Opener(k), [strm EXCEPT ![k].oh = Handle(r)], <<>>)
    /\ UNCHANGED <<envvars, upvars, inb, ctl, fut, out, sess, term, link, cls>>

\* dialer_select_proto finds the stream reset or its session closed.
DialerEof(k) ==
    /\ calls[k].st = "nego"
    /\ strm[k].obuf = "-"
    /\ strm[k].oeof \/ sess[Opener(k)] = "closed"
    /\ calls' = [calls EXCEPT ![k] = Finish(k, OpenResult(FALSE, TRUE, "eof"))]
    /\ Written(Opener(k), [strm EXCEPT ![k].oh = "dropped"], <<>>)
    /\ UNCHANGED <<envvars, upvars, inb, ctl, fut, out, sess, term, link, cls>>

\* open_stream fails: the session is closed.
OpenFailed(k) ==
    /\ calls[k].st = "cmd"
    /\ sess[Opener(k)] = "closed"
    /\ calls' = [calls EXCEPT ![k] = Finish(k, OpenResult(FALSE, FALSE, "-"))]
    /\ UNCHANGED <<envvars, upvars, strm, inb, ctl, scmd, sock, fut, out, sess, term, link, cls>>

\* open_timeout with the opened stream kept alive.
open_timeout_Leaking(k) ==
    /\ calls[k].st \in {"cmd", "nego"}
    /\ calls' = [calls EXCEPT ![k] =
                    [Finish(k, OpenResult(TRUE, calls[k].opened, "-")) EXCEPT !.fired = TRUE]]
    /\ UNCHANGED <<envvars, upvars, strm, inb, ctl, scmd, sock, fut, out, sess, term, link, cls>>

\* The negotiation_timeout timer of open_substream fires: the block is dropped,
\* whether it was still opening the stream or already negotiating.
open_timeout(k) ==
    /\ calls[k].st \in {"cmd", "nego"}
    /\ calls' = [calls EXCEPT ![k] =
                    [Finish(k, OpenResult(TRUE, calls[k].opened, "-")) EXCEPT !.fired = TRUE]]
    /\ Written(Opener(k), [strm EXCEPT ![k].oh = IF @ = "open" THEN "dropped" ELSE @], <<>>)
    /\ UNCHANGED <<envvars, upvars, inb, ctl, fut, out, sess, term, link, cls>>

\* listener_select_proto reads a proposal it supports: it answers with the
\* protocol and is done; incoming yields Ok((stream, protocol)).
ListenerAccept(k) ==
    /\ inb[k].st = "nego"
    /\ sess[Acceptor(k)] = "up"
    /\ strm[k].abuf # "-" /\ Supported(strm[k].abuf)
    /\ inb' = [inb EXCEPT ![k] = [@ EXCEPT !.st = "done", !.proto = strm[k].abuf]]
    /\ Written(Acceptor(k), [strm EXCEPT ![k].abuf = "-"], <<Frame("DATA", k, "ack")>>)
    /\ Yield(Acceptor(k), Item(k, InboundResult(FALSE, TRUE), strm[k].abuf))
    /\ UNCHANGED <<envvars, upvars, calls, ctl, sess, term, link, cls>>

\* listener_select_proto reads a proposal it does not support: it answers "na"
\* and waits for the next proposal.
ListenerReject(k) ==
    /\ inb[k].st = "nego"
    /\ sess[Acceptor(k)] = "up"
    /\ strm[k].abuf \notin {"-", Garbage} /\ ~Supported(strm[k].abuf)
    /\ Written(Acceptor(k), [strm EXCEPT ![k].abuf = "-"], <<Frame("DATA", k, "na")>>)
    /\ UNCHANGED <<envvars, upvars, calls, inb, ctl, fut, out, sess, term, link, cls>>

\* listener_select_proto fails: it reads something that is no proposal, or
\* finds the stream reset or its session closed.
ListenerEof(k) ==
    /\ inb[k].st = "nego"
    /\ \/ strm[k].abuf = Garbage
       \/ strm[k].abuf = "-" /\ strm[k].aeof
       \/ sess[Acceptor(k)] = "closed"
    /\ inb' = [inb EXCEPT ![k] = [@ EXCEPT !.st = "done"]]
    /\ Written(Acceptor(k), [strm EXCEPT ![k].ah = "dropped"], <<>>)
    /\ Yield(Acceptor(k), Item(k, InboundResult(FALSE, FALSE), "-"))
    /\ UNCHANGED <<envvars, upvars, calls, ctl, sess, term, link, cls>>

\* inbound_timeout with the error ending the incoming stream.
inbound_timeout_Fatal(k) ==
    /\ inb[k].st = "nego"
    /\ inb' = [inb EXCEPT ![k] = [@ EXCEPT !.st = "done", !.fired = TRUE]]
    /\ strm' = [strm EXCEPT ![k].ah = "dropped"]
    /\ out' = [out EXCEPT ![Acceptor(k)] = Append(@, Item(k, InboundResult(TRUE, FALSE), "-"))]
    /\ fut' = [fut EXCEPT ![Acceptor(k)] = 0]
    /\ term' = [term EXCEPT ![Acceptor(k)] = TRUE]
    /\ UNCHANGED <<envvars, upvars, calls, ctl, scmd, sock, sess, link, cls>>

\* The negotiation_timeout timer of an inbound negotiation fires.
inbound_timeout(k) ==
    /\ inb[k].st = "nego"
    /\ inb' = [inb EXCEPT ![k] = [@ EXCEPT !.st = "done", !.fired = TRUE]]
    /\ Written(Acceptor(k), [strm EXCEPT ![k].ah = "dropped"], <<>>)
    /\ Yield(Acceptor(k), Item(k, InboundResult(TRUE, FALSE), "-"))
    /\ UNCHANGED <<envvars, upvars, calls, ctl, sess, term, link, cls>>

\* --------------------------------------------------------- specifications
InitState ==
    /\ lstn = "off" /\ lq = <<>> /\ lfut = "-" /\ lout = <<>>
    /\ calls = [k \in Streams |-> NoCall]
    /\ strm = [k \in Streams |-> NoStream]
    /\ inb = [k \in Streams |-> NoInbound]
    /\ ctl = [e \in Ends |-> <<>>]
    /\ scmd = [e \in Ends |-> <<>>]
    /\ sock = [e \in Ends |-> <<>>]
    /\ fut = [e \in Ends |-> 0]
    /\ out = [e \in Ends |-> <<>>]
    /\ sess = [e \in Ends |-> "up"]
    /\ term = [e \in Ends |-> FALSE]
    /\ link = "up"
    /\ cls = [e \in Ends |-> "held"]

\* B dials A and substreams are opened on their connection; the remote of
\* Node B is another Node, or another implementation of the same protocols.
Init ==
    /\ InitState
    /\ env = [dials |-> {"B"}, events |-> 0, opens |-> MaxOpens, closes |-> 0]
    /\ up = [c \in {"B"} |-> [r \in Endpoint |-> NoUpgrade]]
    /\ foreign \in {{}, {"A"}}

Upgrade ==
    \/ listen_on
    \/ listen_filter
    \/ listen_upgrade
    \/ \E c \in DOMAIN up : connect(c) \/ RawConnected(c)
    \/ \E c \in DOMAIN up, r \in Endpoint :
          \/ authenticated(c, r)
          \/ \E valid \in BOOLEAN : VerifyPeerId(c, r, valid)
          \/ multiplexed(c, r)
          \/ UpgradeFail(c, r)
          \/ timeout_applied(c, r)

Session ==
    \E e \in Ends :
        \/ SessionOpen(e)
        \/ SessionSend(e)
        \/ SessionInbound(e)
        \/ SessionFrame(e)
        \/ SessionGc(e)
        \/ SessionClosed(e)
        \/ IncomingEnd(e)

Negotiation ==
    \E k \in Streams :
        \/ DialerAnswer(k)
        \/ DialerEof(k)
        \/ OpenFailed(k)
        \/ open_timeout(k)
        \/ ListenerAccept(k)
        \/ ListenerReject(k)
        \/ ListenerEof(k)
        \/ inbound_timeout(k)

Next ==
    \/ Upgrade
    \/ \E e \in Ends, p \in Protocols : open_substream(e, p)
    \/ \E e \in Ends, p \in Protocols, lazy \in BOOLEAN : RemoteOpen(e, p, lazy)
    \/ \E e \in Ends : RemoteOpen(e, Garbage, TRUE)
    \/ LinkDown
    \/ Session
    \/ Negotiation

Spec == Init /\ [][Next]_vars

\* A listens and both B and C dial it, while the transport reports events on
\* the listener; no substream is opened.
InitUp ==
    /\ InitState
    /\ env = [dials |-> Dialers, events |-> MaxEvents, opens |-> 0, closes |-> 0]
    /\ up = [c \in Dialers |-> [r \in Endpoint |-> NoUpgrade]]
    /\ foreign = {}

NextUp ==
    \/ Upgrade
    \/ listen_error
    \/ listen_end
    \/ \E t \in {"NewAddress", "AddressExpired", "Error", "End"} : ListenerEvent(t)

SpecUp == InitUp /\ [][NextUp]_vars

\* The callers keep polling (connect is awaited, the listen_on stream and the
\* incoming streams are polled, pending open_substream calls are awaited) and
\* the remote keeps answering.  No timer has to fire, nothing has to fail, and
\* no caller has to open a substream.
Polling ==
    \/ listen_on
    \/ listen_filter
    \/ listen_upgrade
    \/ \E c \in DOMAIN up : RawConnected(c)
    \/ \E c \in DOMAIN up, r \in Endpoint :
          authenticated(c, r) \/ VerifyPeerId(c, r, TRUE) \/ multiplexed(c, r)
    \/ Session
    \/ \E k \in Streams :
          \/ DialerAnswer(k) \/ DialerEof(k) \/ OpenFailed(k)
          \/ ListenerAccept(k) \/ ListenerReject(k) \/ ListenerEof(k)

FairSpec == Spec /\ WF_vars(Polling)

\* The scenario of Spec with a close_connection call.
InitClose ==
    /\ InitState
    /\ env = [dials |-> {"B"}, events |-> 0, opens |-> MaxClosingOpens, closes |-> MaxCloses]
    /\ up = [c \in {"B"} |-> [r \in Endpoint |-> NoUpgrade]]
    /\ foreign \in {{}, {"A"}}

NextClose == Next \/ \E e \in Ends : close_connection(e) \/ SessionClose(e)

SpecClose == InitClose /\ [][NextClose]_vars

\* The negotiation_timeout timers run whether or not anything else happens.
NegotiationTimers == \E k \in Streams : open_timeout(k) \/ inbound_timeout(k)

\* SpecClose where the applications keep polling and the timers run.
FairSpecClose ==
    /\ SpecClose
    /\ WF_vars(Polling \/ \E e \in Ends : SessionClose(e))
    /\ WF_vars(NegotiationTimers)

\* ------------------------------------------------------------------ claims
\* A negotiation timer has fired on the connection B <-> A.
TimerFired == \E k \in Streams : calls[k].fired \/ inb[k].fired

Yielded(e, item) == \E i \in DOMAIN out[e] : out[e][i] = item

\* C1: when Node B has connected to Node A, A supports P and both keep polling,
\* then, unless a negotiation timer fires or the connection goes down, B's
\* open_substream(P) eventually returns Ok and A's incoming yields Ok((stream, P)).
C1_NegotiationLive ==
    \A k \in Streams :
        (foreign = {} /\ calls[k].st = "cmd" /\ calls[k].side = "B" /\ Supported(calls[k].proto))
        ~> \/ TimerFired
           \/ link = "down"
           \/ calls[k].res = "Ok" /\ Yielded("A", Item(k, "Ok", calls[k].proto))

\* A Node's open_substream call k has returned on a connection that is up.
ReturnedOnLiveConnection(k) ==
    /\ calls[k].st = "done" /\ calls[k].side \notin foreign
    /\ link = "up" /\ sess[calls[k].side] = "up"

\* C2: on an established connection, open_substream(P) for a protocol P the
\* remote does not support returns Err(NegotiationFailed), never Ok,
\* NegotiationTimeoutReached or Multiplexer.
C2_UnsupportedAlwaysFails ==
    \A k \in Streams :
        ReturnedOnLiveConnection(k) /\ ~Supported(calls[k].proto)
        => calls[k].res = "NegotiationFailed"

\* An inbound stream has arrived at Node e: its SYN is the next frame to read.
InboundWaiting(e) ==
    /\ Established(e) /\ e \notin foreign
    /\ sess[e] = "up" /\ link = "up"
    /\ sock[e] # <<>> /\ Head(sock[e]).t = "SYN"

\* C3: a pending inbound negotiation does not block later inbound substreams:
\* an inbound stream that has arrived can be surfaced and negotiated whether
\* or not an earlier negotiation is still pending.
C3_InboundNotBlocked ==
    \A e \in Ends : InboundWaiting(e) => ENABLED SessionInbound(e)

\* C5: every Substream handed to a caller has completed protocol negotiation:
\* an Ok item of incoming carries a stream still held whose listener
\* negotiation agreed on the item's protocol, a supported one and the one the
\* remote proposed; an Ok result of open_substream carries a stream still held
\* on which the remote answered with the proposed protocol.
C5_OnlyNegotiatedStreams ==
    /\ \A e \in Ends \ foreign : \A i \in DOMAIN out[e] :
          out[e][i].r = "Ok" =>
              LET k == out[e][i].k
              IN  /\ inb[k].st = "done" /\ ~inb[k].fired
                  /\ inb[k].proto = out[e][i].p
                  /\ Supported(out[e][i].p)
                  /\ calls[k].proto = out[e][i].p
                  /\ strm[k].ah = "open"
    /\ \A k \in Streams :
          calls[k].res = "Ok" /\ calls[k].side \notin foreign =>
              /\ ~calls[k].fired /\ calls[k].opened
              /\ strm[k].obuf = "ack" /\ strm[k].oh = "open"
              /\ inb[k].st = "done" /\ inb[k].proto = calls[k].proto

\* A Node has been handed an inbound Substream and an outbound one.
C5_Witness ==
    /\ \E i \in DOMAIN out["B"] : out["B"][i].r = "Ok"
    /\ \E k \in Streams : calls[k].res = "Ok" /\ calls[k].side = "B"

\* Node e has seen a substream negotiation fail: an Err(NegotiationFailed) or
\* Err(NegotiationTimeoutReached) item of incoming, or such a result of open_substream.
NegotiationErrors == {"NegotiationFailed", "NegotiationTimeoutReached"}

SawFailure(e) ==
    \/ \E i \in DOMAIN out[e] : out[e][i].r \in NegotiationErrors
    \/ \E k \in Streams : calls[k].side = e /\ calls[k].res \in NegotiationErrors

\* C7: a substream negotiation failure does not tear down the connection: while
\* the raw connection is up, a Node that has seen such failures still has its
\* session open and its incoming stream unended, can surface the next inbound
\* stream once no negotiation is pending, and can start another open_substream
\* once its Control is free.
C7_FailureKeepsConnection ==
    \A e \in Ends \ foreign :
        SawFailure(e) /\ link = "up" =>
            /\ sess[e] = "up" /\ ~term[e]
            /\ InboundWaiting(e) /\ fut[e] = 0 => ENABLED SessionInbound(e)
            /\ env.opens > 0 /\ cls[e] = "held" /\ InFlight(e) = {}
                  => \A p \in Protocols : ENABLED open_substream(e, p)

\* After an Err item, incoming has yielded the Ok item of a later stream.
C7_Witness ==
    \E e \in Ends \ foreign :
        /\ Len(out[e]) = 2 /\ ~term[e]
        /\ out[e][1].r \in NegotiationErrors
        /\ out[e][2].r = "Ok"

\* C8: open_substream ends in exactly one of four results, under one timer for
\* both steps: NegotiationTimeoutReached exactly when the timer fired (before or
\* after the stream was opened); Ok only when the stream was opened and the
\* remote agreed; Multiplexer only when the stream was not opened, and then no
\* stream exists and nothing was negotiated; NegotiationFailed only when the
\* stream was opened.
C8_OpenSubstreamResult ==
    \A k \in Streams :
        calls[k].st = "done" /\ calls[k].side \notin foreign =>
            /\ calls[k].res \in {"Ok", "NegotiationTimeoutReached", "Multiplexer",
                                 "NegotiationFailed"}
            /\ calls[k].res = "NegotiationTimeoutReached" <=> calls[k].fired
            /\ calls[k].res = "Ok" => calls[k].opened /\ strm[k].obuf = "ack"
            /\ calls[k].res = "Multiplexer" =>
                  ~calls[k].opened /\ strm[k].oh = "none" /\ inb[k].st = "none"
            /\ calls[k].res = "NegotiationFailed" => calls[k].opened

\* The timer has ended one call before its stream was opened and another one
\* during its negotiation.
C8_Witness ==
    \E j, k \in Streams :
        /\ calls[j].side \notin foreign /\ calls[k].side \notin foreign
        /\ calls[j].fired /\ ~calls[j].opened
        /\ calls[k].fired /\ calls[k].opened

\* C9 as stated: whichever of the three timers fires (overall upgrade, inbound
\* negotiation, outbound negotiation), the failure reported is
\* NegotiationTimeoutReached.
C9_AllReportNegotiationTimeout ==
    /\ \A c \in DOMAIN up, r \in Endpoint :
          up[c][r].fired => up[c][r].err = "NegotiationTimeoutReached"
    /\ \A k \in Streams :
          /\ calls[k].fired /\ calls[k].side \notin foreign
                => calls[k].res = "NegotiationTimeoutReached"
          /\ inb[k].fired /\ Acceptor(k) \notin foreign
                => Yielded(Acceptor(k), Item(k, "NegotiationTimeoutReached", "-"))

\* C9, amended: when its timer fires the operation is abandoned; inbound and
\* outbound substream negotiation report NegotiationTimeoutReached, while the
\* overall upgrade (connect and per-accept) reports the transport's own timeout
\* error and produces no Connection.
C9_TimeoutReports ==
    /\ \A c \in DOMAIN up, r \in Endpoint :
          /\ up[c][r].fired =>
                /\ up[c][r].stage = "failed" /\ up[c][r].reached < 3
                /\ up[c][r].err = "TransportTimeout"
                /\ r = "Listener" =>
                      \E i \in DOMAIN lout : lout[i] = ErrItem(c, "TransportTimeout")
          /\ up[c][r].err \in {"TransportTimeout", "NegotiationTimeoutReached"}
                => up[c][r].fired
    /\ \A k \in Streams :
          /\ calls[k].fired /\ calls[k].side \notin foreign =>
                /\ calls[k].st = "done" /\ calls[k].res = "NegotiationTimeoutReached"
                /\ strm[k].oh # "open"
          /\ inb[k].fired /\ Acceptor(k) \notin foreign =>
                /\ inb[k].st = "done" /\ strm[k].ah # "open"
                /\ Yielded(Acceptor(k), Item(k, "NegotiationTimeoutReached", "-"))

\* An upgrade timer and an open_substream timer have both fired.
C9_Witness ==
    /\ \E c \in DOMAIN up, r \in Endpoint : up[c][r].fired
    /\ \E k \in Streams : calls[k].fired /\ calls[k].side \notin foreign

\* C4: the upgrades of accepted connections run independently: an accepted
\* connection the listener holds can have its upgrade started whether or not
\* the upgrade of an earlier one is still pending.
C4_UpgradesIndependent ==
    (lstn = "on" /\ lq # <<>> /\ Head(lq).t = "Upgrade") => ENABLED listen_upgrade

\* C6: for every successful dial/accept pair the Connection returned by connect
\* carries the listener's identity and the Connection yielded by listen_on
\* carries the dialer's.
C6_MutualPeerId ==
    /\ \A c \in DOMAIN up :
          up[c]["Dialer"].stage = "done" => up[c]["Dialer"].peer = PeerId(ListenerNode)
    /\ \A i \in DOMAIN lout :
          lout[i].ok =>
              /\ lout[i].peer = PeerId(lout[i].c)
              /\ up[lout[i].c]["Listener"].peer = PeerId(lout[i].c)

\* Both B and C have connected to A, and A has been yielded both Connections.
C6_Witness ==
    /\ \A c \in Dialers : c \in DOMAIN up /\ up[c]["Dialer"].stage = "done"
    /\ \A c \in Dialers : \E i \in DOMAIN lout : lout[i].ok /\ lout[i].c = c

\* The TransportTimeout timers run whether or not the remote acts.
TimerExpiry == \E c \in DOMAIN up, r \in Endpoint : timeout_applied(c, r)

FairSpecUp == SpecUp /\ WF_vars(TimerExpiry)

\* C10: connect always terminates, whatever the remote does: a dial in progress
\* eventually ends with a Connection or a failure; so does every per-accept
\* upgrade the listen_on stream has started.
C10_UpgradeTerminates ==
    \A c \in Dialers, r \in Endpoint :
        (c \in DOMAIN up /\ InProgress(up[c][r]))
        ~> (up[c][r].stage \in {"done", "failed"})

\* A dial to a remote that never answered has been ended by the timer.
C10_Witness ==
    \E c \in DOMAIN up :
        /\ up[c]["Dialer"].fired /\ up[c]["Dialer"].stage = "failed"
        /\ up[c]["Listener"].stage = "idle"

C11_CloseObserved ==
    \A e \in Ends :
        /\ (cls[e] = "closing") ~> (cls[e] = "returned")
        /\ (cls[e] # "held" /\ Established(Peer(e)) /\ Peer(e) \notin foreign)
              ~> term[Peer(e)]

\* B's close_connection was answered by its session, and A's incoming has ended
\* without an error item.
C11_Witness ==
    /\ foreign = {} /\ cls["B"] = "returned" /\ link = "closed"
    /\ term["A"] /\ \A i \in DOMAIN out["A"] : out["A"][i].r # "Multiplexer"

\* The listen_on stream takes the event at the head of the listener's queue.
Pulled(t) == lq # <<>> /\ Head(lq).t = t /\ lq' = Tail(lq)

\* The item of connection c in the listen_on stream's output.
ItemsOf(c) == {i \in DOMAIN lout : lout[i].c = c}

\* C13: the listen_on stream yields nothing for an informational listener event;
\* its items are exactly, in order, the listener's error events and the results
\* of the upgrades of accepted connections: events are taken from the head of
\* the queue, an item is appended only for the error taken or for the one
\* upgrade awaited, and every finished per-accept upgrade has exactly one item.
C13_ListenItems ==
    /\ [](\A c \in DOMAIN up :
            /\ Cardinality(ItemsOf(c)) = IF up[c]["Listener"].stage \in {"done", "failed"}
                                         THEN 1 ELSE 0
            /\ \A i \in ItemsOf(c) : lout[i].ok <=> up[c]["Listener"].stage = "done")
    /\ [][/\ Pulled("NewAddress") \/ Pulled("AddressExpired") => lout' = lout
          /\ lfut' # lfut /\ lfut' # "-" => lfut = "-" /\ Pulled("Upgrade") /\ Head(lq).c = lfut'
          /\ lout' # lout =>
                \/ Pulled("Error") /\ lout' = Append(lout, ErrItem("-", "Listener"))
                \/ /\ lfut # "-" /\ lfut' = "-" /\ lq' = lq
                   /\ Len(lout') = Len(lout) + 1 /\ SubSeq(lout', 1, Len(lout)) = lout
                   /\ lout'[Len(lout')].c = lfut]_vars

\* The NewAddress event was dropped, and the stream has yielded the listener's
\* error and the Connections of B and C, nothing else.
C13_Witness ==
    /\ lstn = "on" /\ lq = <<>> /\ env.events = 0 /\ Len(lout) = 3
    /\ \E i \in DOMAIN lout : lout[i] = ErrItem("-", "Listener")
    /\ \A c \in Dialers : \E i \in DOMAIN lout : lout[i].ok /\ lout[i].c = c

\* End e holds nothing of stream k any more: no handle, no entry in the
\* session's table, no pending command that would still open it.
Released(e, k, h) ==
    /\ e \in Ends
    /\ \/ sess[e] = "closed"
       \/ h \in {"none", "gone"} /\ \A i \in DOMAIN ctl[e] : ctl[e][i] # k

C15_StagesInOrder ==
    /\ [](/\ \A c \in DOMAIN up, r \in Endpoint :
               /\ up[c][r].stage = "done" =>
                     up[c][r].reached = 3 /\ up[c][r].err = "-" /\ up[c][r].peer # "-"
               /\ up[c][r].stage = "failed" =>
                     up[c][r].reached < 3 /\ up[c][r].err # "-" /\ up[c][r].mode = "-"
          /\ \A i \in DOMAIN lout :
               lout[i].ok => up[lout[i].c]["Listener"].stage = "done")
    /\ [][\A c \in DOMAIN up, r \in Endpoint :
             LET u == up[c][r]
                 v == up'[c][r]
             IN  /\ u.stage \in {"done", "failed"} => v = u
                 /\ v.stage = "verify" /\ u.stage # "verify" => u.stage = "noise"
                 /\ v.stage = "yamux" /\ u.stage # "yamux" => u.stage = "verify"
                 /\ v.stage = "done" /\ u.stage # "done" => u.stage = "yamux"
                 /\ v.reached = IF v.stage \in {"verify", "yamux", "done"} \ {u.stage}
                                THEN u.reached + 1 ELSE u.reached]_vars

\* One connection went through the three stages at both endpoints; the attempt
\* for the other one was ended by the peer-id verification.
C15_Witness ==
    \E c, d \in DOMAIN up :
        /\ \A r \in Endpoint : up[c][r].stage = "done"
        /\ \E r \in Endpoint :
              up[d][r].stage = "failed" /\ up[d][r].err = "Verify" /\ up[d][r].reached = 1

\* C16: the yamux mode follows the direction of the connection: the endpoint
\* that dialed runs its session as client, the endpoint that accepted as
\* server, and no session exists before the chain is through; so the two ends
\* of an established connection are one client and one server.
C16_ModeFollowsDirection ==
    \A c \in DOMAIN up :
        /\ \A r \in Endpoint :
              up[c][r].mode = IF up[c][r].stage # "done" THEN "-"
                              ELSE IF r = "Dialer" THEN "Client" ELSE "Server"
        /\ (\A r \in Endpoint : up[c][r].stage = "done") =>
              {up[c][r].mode : r \in Endpoint} = {"Client", "Server"}

\* Connection B is established at both ends, connection C only at the listener.
C16_Witness ==
    /\ \A c \in Dialers : c \in DOMAIN up /\ up[c]["Listener"].stage = "done"
    /\ up["B"]["Dialer"].stage = "done" /\ up["C"]["Dialer"].stage = "failed"

\* The streams the session of e has handed to incoming, by the items yielded.
InboundOrder(e) == [i \in DOMAIN out[e] |-> out[e][i].k]

\* C17: the items of incoming are in the order in which the session delivered
\* the streams, however long each negotiation took: a stream is delivered only
\* when the item of the one before it has been yielded, every item is for the
\* stream delivered last, and so the items follow the order of the streams on
\* the wire.
C17_InboundInOrder ==
    /\ [](\A e \in Ends \ foreign : \A i, j \in DOMAIN out[e] :
             i < j /\ out[e][j].k # 0 => InboundOrder(e)[i] < InboundOrder(e)[j])
    /\ [][\A e \in Ends \ foreign :
             /\ fut'[e] # fut[e] /\ fut'[e] # 0 =>
                   /\ fut[e] = 0
                   /\ \A i \in DOMAIN out[e] : out[e][i].k # fut'[e]
                   /\ \A j \in Streams :
                         j < fut'[e] /\ calls[j].side = Peer(e) => inb[j].st = "done"
             /\ out'[e] # out[e] =>
                   /\ Len(out'[e]) = Len(out[e]) + 1
                   /\ SubSeq(out'[e], 1, Len(out[e])) = out[e]
                   /\ out'[e][Len(out'[e])].k = fut[e]
                   /\ fut'[e] = 0]_vars

\* A negotiation that lasted until its timer fired, then the stream delivered
\* after it, negotiated at once.
C17_Witness ==
    \E e \in Ends \ foreign :
        /\ Len(out[e]) = 2
        /\ out[e][1].k = 1 /\ out[e][1].r = "NegotiationTimeoutReached"
        /\ out[e][2].k = 2 /\ out[e][2].r = "Ok"

\* The items of incoming at end e that are for stream k.
StreamItems(e, k) == {i \in DOMAIN out[e] : out[e][i].k = k}

\* C18: every inbound stream the session hands to incoming gets exactly one
\* item: none while its negotiation is the pending one, one when it is done.
\* The item is Ok((substream, P)) with P in supported_inbound_protocols, the
\* list given to Node::new, or Err(NegotiationTimeoutReached) or
\* Err(NegotiationFailed); Err(Multiplexer) is the item of no stream.
C18_OneItemPerStream ==
    \A e \in Ends \ foreign :
        /\ \A k \in Streams :
              calls[k].side = Peer(e) =>
                  /\ Cardinality(StreamItems(e, k)) = IF inb[k].st = "done" THEN 1 ELSE 0
                  /\ inb[k].st = "nego" => fut[e] = k
        /\ \A i \in DOMAIN out[e] :
              /\ out[e][i].r \in {"Ok", "NegotiationTimeoutReached", "NegotiationFailed",
                                  "Multiplexer"}
              /\ out[e][i].r = "Multiplexer" <=> out[e][i].k = 0
              /\ IF out[e][i].r = "Ok"
                 THEN \E n \in DOMAIN supported_inbound_protocols :
                          supported_inbound_protocols[n] = out[e][i].p
                 ELSE out[e][i].p = "-"

\* Two streams were handed to incoming: one gave Ok with a supported protocol,
\* the other Err(NegotiationFailed).
C18_Witness ==
    \E e \in Ends \ foreign : \E i, j \in DOMAIN out[e] :
        /\ out[e][i].r = "Ok" /\ out[e][j].r = "NegotiationFailed"
        /\ out[e][i].k # out[e][j].k

\* Sequence a is the beginning of sequence b, and b is longer.
Extended(a, b) == Len(a) < Len(b) /\ SubSeq(b, 1, Len(a)) = a

\* The incoming stream of Node e holds a negotiation future, so it does not
\* poll the session.
Busy(e) == e \notin foreign /\ fut[e] # 0

C20_ListenSurvivesFailure ==
    /\ [](/\ \A c \in DOMAIN up :
               up[c]["Listener"].stage = "failed" =>
                   /\ Cardinality(ItemsOf(c)) = 1
                   /\ \A i \in ItemsOf(c) : lout[i] = ErrItem(c, up[c]["Listener"].err)
          /\ lstn = "on" /\ lfut = "-" /\ lq # <<>> =>
               ENABLED (listen_filter \/ listen_error \/ listen_upgrade \/ listen_end))
    /\ [][/\ Pulled("Error") => lout' = Append(lout, ErrItem("-", "Listener"))
          /\ lstn' # lstn => \/ lstn = "off" /\ lstn' = "on"
                             \/ lstn = "on" /\ lstn' = "ended" /\ Pulled("End")]_vars

\* After the listener's error and the failure of B's upgrade, each one Err item,
\* the stream has yielded the Connection of C, accepted later.
C20_Witness ==
    /\ lstn = "on" /\ Len(lout) = 3
    /\ lout[1] = ErrItem("-", "Listener")
    /\ ~lout[2].ok /\ lout[2].c = "B"
    /\ lout[3].ok /\ lout[3].c = "C"

====
